---- MODULE Spec2Model ----
(***************************************************************************)
(* Model of create_result_containers.ipynb (SAPHIR water-vapour morphing). *)
(*                                                                         *)
(* The notebook's code cells allocate the result containers; its markdown  *)
(* cells document the formulas and the stack operations (fill, roll and    *)
(* clobber, interrogate) that are to work on them.  Both are modelled.     *)
(*                                                                         *)
(* Angles are held exactly, in quarter degrees (0.25 degree = 1), so that  *)
(* every constant of cell 2 is an integer; quotients are kept as a         *)
(* numerator over a denominator.  All the divisions of cell 2 are exact in *)
(* binary floating point, so the exact arithmetic is the notebook's.       *)
(***************************************************************************)
EXTENDS Integers, Sequences, FiniteSets, TLC

VARIABLES pc,            \* the next code cell to run (execution_count), 8 = all have run;
                         \* the next step's name under SpecObs and SpecFormula
          NLAT, NLON, lat, lon,
          WV, AT,
          WV_before, WV_after, dt_before, dt_after,
          WV_stack, tobs_stack,
          hour,          \* the product hour the stacks are centred on
          nfill,         \* pixels placed so far
          obs, prodHour, series, found,       \* interrogation of one cell's time series
          fin, WV500, AT500                   \* the Step 2 formulas

gridVars  == <<NLAT, NLON, lat, lon, WV, AT>>
needVars  == <<WV_before, WV_after, dt_before, dt_after>>
stackVars == <<WV_stack, tobs_stack, hour, nfill>>
nbVars    == <<pc, gridVars, needVars, stackVars>>
obsVars   == <<obs, prodHour, series, found>>
fmVars    == <<fin, WV500, AT500>>
vars      == <<nbVars, obsVars, fmVars>>

\* A Python name that no cell has bound yet.
Undef == "undef"

(***************************************************************************)
(* Cell 2: the grid constants, in quarter degrees.                         *)
(***************************************************************************)
DX    == 2       \* 0.5 degrees
SOUTH == -120    \* -30
NORTH == 120     \* 30
WEST  == 1       \* 0.25
EAST  == 1439    \* 359.75

(***************************************************************************)
(* Cell 6: the stack constants, in hours.                                  *)
(***************************************************************************)
DTMAX   == 6
DTstack == 1

(***************************************************************************)
(* Bounds of the model.                                                    *)
(***************************************************************************)
MaxFills    == 2     \* pixels placed in a run
MaxRecenter == 2     \* recentering steps in a run
MaxHour     == 9     \* observation and product hours of the interrogated cell: 1 .. MaxHour
MaxWV       == 3     \* water-vapour values fed to the formulas: 0 .. MaxWV
MaxDt       == 3     \* time distances fed to the formulas: 0 .. MaxDt

\* The grid cells whose contents the model follows: two opposite corners of
\* the 719 x 120 grid.  Shapes are kept in full.
TrackedCells == {<<0, 0>>, <<718, 119>>}

\* The first product hour; late enough that every time in its window is positive.
FirstHour == DTMAX + 1

\* Python's int(): truncation toward zero of the quotient a/b, b > 0.
PyInt(a, b) == IF a >= 0 THEN a \div b ELSE -((-a) \div b)

GridCountInclusive(lo, hi, dx) == PyInt(hi - lo, dx) + 1

\* int( (hi-lo)/DX )
GridCount(lo, hi, dx) == PyInt(hi - lo, dx)

\* np.linspace(start, stop, num): num samples, a[i] = start + i*(stop-start)/(num-1),
\* held as numerators over the common denominator num-1.
Linspace(start, stop, num) ==
    [den |-> num - 1,
     num |-> [i \in 0 .. num - 1 |-> start * (num - 1) + i * (stop - start)]]

Tracked(shape) == {c \in TrackedCells : c[1] < shape[1] /\ c[2] < shape[2]}

ZerosTransposed(shape) ==
    [shape |-> <<shape[2], shape[1]>>,
     data  |-> [c \in Tracked(<<shape[2], shape[1]>>) |-> 0]]

\* np.zeros( (n, m) )
Zeros2(shape) ==
    [shape |-> shape, data |-> [c \in Tracked(shape) |-> 0]]

\* np.zeros( (n, m, d) )
Zeros3(shape) ==
    [shape |-> shape,
     data  |-> [c \in Tracked(shape) |-> [k \in 0 .. shape[3] - 1 |-> 0]]]

StackDepthEven(dtmax) == 2 * dtmax

\* "The size of the centered stack will then be 2*DTMAX+1."
StackDepth(dtmax) == 2 * dtmax + 1

\* The time, relative to the product hour, of layer k of a stack centred on dt=0.
LayerDt(k) == (k - DTMAX) * DTstack

Layers(stack) == 0 .. stack.shape[3] - 1

(***************************************************************************)
(* The code cells, run in order.                                           *)
(***************************************************************************)
Cell1 ==  \* import numpy as np
    /\ pc = 1
    /\ pc' = 2
    /\ UNCHANGED <<gridVars, needVars, stackVars, obsVars, fmVars>>

Cell2 ==
    /\ pc = 2
    /\ LET nlat == GridCount(SOUTH, NORTH, DX)
           nlon == GridCount(WEST, EAST, DX)
       IN /\ NLAT' = nlat
          /\ lat'  = Linspace(SOUTH, NORTH, nlat)
          /\ NLON' = nlon
          /\ lon'  = Linspace(WEST, EAST, nlon)
          /\ WV'   = Zeros2(<<nlon, nlat>>)
          /\ AT'   = Zeros2(<<nlon, nlat>>)
    /\ pc' = 3
    /\ UNCHANGED <<needVars, stackVars, obsVars, fmVars>>

Cell4 ==
    /\ pc = 4
    /\ WV_before' = Zeros2(<<NLON, NLAT>>)
    /\ WV_after'  = Zeros2(<<NLON, NLAT>>)
    /\ dt_before' = Zeros2(<<NLON, NLAT>>)
    /\ dt_after'  = Zeros2(<<NLON, NLAT>>)
    /\ pc' = 5
    /\ UNCHANGED <<gridVars, stackVars, obsVars, fmVars>>

Cell6 ==
    /\ pc = 6
    /\ WV_stack'   = Zeros3(<<NLON, NLAT, StackDepth(DTMAX)>>)
    /\ tobs_stack' = Zeros3(<<NLON, NLAT, StackDepth(DTMAX)>>)
    /\ pc' = 7
    /\ UNCHANGED <<gridVars, needVars, hour, nfill, obsVars, fmVars>>

\* Cells 3, 5 and 7: whos only prints the namespace.
Whos ==
    /\ pc \in {3, 5, 7}
    /\ pc' = pc + 1
    /\ UNCHANGED <<gridVars, needVars, stackVars, obsVars, fmVars>>

(***************************************************************************)
(* The documented stack operations (last markdown cell).                   *)
(***************************************************************************)
\* "the set of observation pixels within DTMAX of the time of the product": the
\* input data the fill loops over, here one pixel at each end of the window.
\* Values and times are nonzero (zero is the stacks' "empty").
Pixels(h) == {[WVobs |-> 1, tobs |-> h - DTMAX], [WVobs |-> 2, tobs |-> h + DTMAX]}

\* "Place the pixel in the dt=... layer of WV_stack and tobs_stack, at location ..."
\* The location in a layer is the pixel's, displaced by the wind: any cell.
Place(stack, c, k, v) ==
    [stack EXCEPT !.data[c][k] = v]

PlacePixel(c, k, wvobs, tobs) ==
    /\ WV_stack'   = Place(WV_stack, c, k, wvobs)
    /\ tobs_stack' = Place(tobs_stack, c, k, tobs)
    /\ nfill' = nfill + 1
    /\ UNCHANGED <<pc, gridVars, needVars, hour, obsVars, fmVars>>

\* "How do we fill the stack initially": every layer of the stack is filled.
FillInitial ==
    /\ pc = 8
    /\ hour = FirstHour
    /\ nfill < MaxFills
    /\ \E c \in DOMAIN WV_stack.data, k \in Layers(WV_stack), p \in Pixels(hour) :
            PlacePixel(c, k, p.WVobs, p.tobs)

\* "Now just fill that future stack time, WV_stack[:,:,DTMAX*2], with real data"
FillFuture ==
    /\ pc = 8
    /\ hour > FirstHour
    /\ nfill < MaxFills
    /\ \E c \in DOMAIN WV_stack.data, p \in Pixels(hour) :
            PlacePixel(c, DTMAX * 2, p.WVobs, p.tobs)

\* np.roll(stack, -1, axis=2): layer k takes the content of layer k+1, and the
\* last layer that of layer 0 (the roll is periodic).
Roll(stack) ==
    LET n == stack.shape[3]
    IN [stack EXCEPT !.data = [c \in DOMAIN stack.data |->
                                 [k \in 0 .. n - 1 |-> stack.data[c][(k + 1) % n]]]]

\* WV_stack[:,:,DTMAX*2] = 0
Clobber(stack) ==
    [stack EXCEPT !.data = [c \in DOMAIN stack.data |->
                              [stack.data[c] EXCEPT ![DTMAX * 2] = 0]]]

\* "np.roll(WV_stack), np.roll(tobs_stack) to recenter the stack on the next hour.
\*  WV_stack[:,:,DTMAX*2]=0 to clobber where the periodic roll() operation has
\*  shifted past data into the future"
Recenter ==
    /\ pc = 8
    /\ hour < FirstHour + MaxRecenter
    /\ WV_stack'   = Clobber(Roll(WV_stack))
    /\ tobs_stack' = Roll(tobs_stack)
    /\ hour' = hour + 1
    /\ UNCHANGED <<pc, gridVars, needVars, nfill, obsVars, fmVars>>

InitNotebook ==
    /\ pc = 1
    /\ NLAT = Undef /\ NLON = Undef /\ lat = Undef /\ lon = Undef
    /\ WV = Undef /\ AT = Undef
    /\ WV_before = Undef /\ WV_after = Undef
    /\ dt_before = Undef /\ dt_after = Undef
    /\ WV_stack = Undef /\ tobs_stack = Undef
    /\ hour = FirstHour
    /\ nfill = 0

IdleObs == obs = {} /\ prodHour = 0 /\ series = Undef /\ found = Undef
IdleFm  == fin = Undef /\ WV500 = Undef /\ AT500 = Undef

\* The notebook's names while another specification runs.
IdleNotebook ==
    /\ NLAT = Undef /\ NLON = Undef /\ lat = Undef /\ lon = Undef
    /\ WV = Undef /\ AT = Undef
    /\ WV_before = Undef /\ WV_after = Undef
    /\ dt_before = Undef /\ dt_after = Undef
    /\ WV_stack = Undef /\ tobs_stack = Undef
    /\ hour = FirstHour
    /\ nfill = 0

Init == InitNotebook /\ IdleObs /\ IdleFm

Next ==
    \/ Cell1
    \/ Cell2
    \/ Whos
    \/ Cell4
    \/ Cell6
    \/ FillInitial
    \/ FillFuture
    \/ Recenter

Spec == Init /\ [][Next]_vars


(***************************************************************************)
(* Interrogating the stack at one grid cell ("How do we interrogate the    *)
(* stack", and the sizing rule for DTMAX in the markdown of cell 6).       *)
(* obs is the set of hours at which the cell has an observation; the       *)
(* cell's time series in tobs_stack, centred on prodHour, holds the time   *)
(* of the observation of each layer, and 0 where there is none.            *)
(***************************************************************************)
NotFound == [ok |-> FALSE]

\* "For each location (lat,lon), the stack is a time series of length 2*DTMAX+1."
TimeSeries(o, h) ==
    [k \in 0 .. StackDepth(DTMAX) - 1 |->
        IF h + LayerDt(k) \in o THEN h + LayerDt(k) ELSE 0]

SetMax(S) == CHOOSE x \in S : \A y \in S : y <= x
SetMin(S) == CHOOSE x \in S : \A y \in S : x <= y

NearestBeforeStrict(s) ==
    LET ks == {k \in DOMAIN s : LayerDt(k) < 0 /\ s[k] # 0}
    IN IF ks = {} THEN NotFound
       ELSE [ok |-> TRUE, dt |-> -LayerDt(SetMax(ks)), tobs |-> s[SetMax(ks)]]

\* "find nonzero values closest to dt=0 (the center of the series)", on the side
\* dt <= 0; an observation in dt=0 is its own nearest.
NearestBefore(s) ==
    LET ks == {k \in DOMAIN s : LayerDt(k) <= 0 /\ s[k] # 0}
    IN IF ks = {} THEN NotFound
       ELSE [ok |-> TRUE, dt |-> -LayerDt(SetMax(ks)), tobs |-> s[SetMax(ks)]]

\* The same on the side dt >= 0.
NearestAfter(s) ==
    LET ks == {k \in DOMAIN s : LayerDt(k) >= 0 /\ s[k] # 0}
    IN IF ks = {} THEN NotFound
       ELSE [ok |-> TRUE, dt |-> LayerDt(SetMin(ks)), tobs |-> s[SetMin(ks)]]

\* "the longest time gap between observations" is at most DTMAX
GapsWithinDTMAX(o) ==
    \A a, b \in o :
        (a < b /\ ~ \E m \in o : a < m /\ m < b) => b - a <= DTMAX

BuildSeries ==
    /\ pc = "build"
    /\ series' = TimeSeries(obs, prodHour)
    /\ pc' = "interrogate"
    /\ UNCHANGED <<gridVars, needVars, stackVars, obs, prodHour, found, fmVars>>

Interrogate ==
    /\ pc = "interrogate"
    /\ found' = [before |-> NearestBefore(series), after |-> NearestAfter(series)]
    /\ pc' = "done"
    /\ UNCHANGED <<gridVars, needVars, stackVars, obs, prodHour, series, fmVars>>

InitObs ==
    /\ pc = "build"
    /\ IdleNotebook
    /\ IdleFm
    /\ obs \in SUBSET (1 .. MaxHour) \ {{}}    \* a cell the satellite has observed
    /\ prodHour \in 1 .. MaxHour
    /\ series = Undef
    /\ found = Undef

NextObs == BuildSeries \/ Interrogate

SpecObs == InitObs /\ [][NextObs]_vars

(***************************************************************************)
(* Step 2: the formulas as the notebook writes them.  A quotient is held   *)
(* as [num, den] with den > 0.                                             *)
(***************************************************************************)
\* WV500 = ( WV_before*dt_after + WV_before*dt_after )/(dt_before + dt_after)
WV500Formula(wvb, wva, dtb, dta) ==
    [num |-> wvb * dta + wvb * dta, den |-> dtb + dta]

\* AT500 = ( WV_after - WV_before )/(dt_before + dt_after)
AT500Formula(wvb, wva, dtb, dta) ==
    [num |-> wva - wvb, den |-> dtb + dta]

Compute ==
    /\ pc = "compute"
    /\ WV500' = WV500Formula(fin.WV_before, fin.WV_after, fin.dt_before, fin.dt_after)
    /\ AT500' = AT500Formula(fin.WV_before, fin.WV_after, fin.dt_before, fin.dt_after)
    /\ pc' = "done"
    /\ UNCHANGED <<gridVars, needVars, stackVars, obsVars, fin>>

InitFormula ==
    /\ pc = "compute"
    /\ IdleNotebook
    /\ IdleObs
    /\ fin \in {r \in [WV_before : 0 .. MaxWV, WV_after : 0 .. MaxWV,
                       dt_before : 0 .. MaxDt, dt_after : 0 .. MaxDt] :
                    r.dt_before + r.dt_after > 0}
    /\ WV500 = Undef
    /\ AT500 = Undef

NextFormula == Compute

SpecFormula == InitFormula /\ [][NextFormula]_vars


(***************************************************************************)
(* Properties.                                                             *)
(***************************************************************************)
Len1(a) == Cardinality(DOMAIN a.num)

\* C1: once cell 2 has run, NLON = floor((EAST-WEST)/DX) = 719 and
\* NLAT = floor((NORTH-SOUTH)/DX) = 120, and every 2-D container that has been
\* allocated has shape (NLON, NLAT).
C1_GridCounts ==
    /\ (pc > 2 =>
          /\ NLON = (EAST - WEST) \div DX
          /\ NLAT = (NORTH - SOUTH) \div DX
          /\ NLON = 719
          /\ NLAT = 120
          /\ WV.shape = <<NLON, NLAT>>
          /\ AT.shape = <<NLON, NLAT>>)
    /\ (pc > 4 =>
          \A a \in {WV_before, WV_after, dt_before, dt_after} :
              a.shape = <<NLON, NLAT>>)

C1_Witness ==
    /\ pc = 8
    /\ WV.shape = <<719, 120>>
    /\ dt_after.shape = <<719, 120>>

\* The entries of a run from lo to hi, all consecutive differences exactly dx.
RegularAxis(a, n, lo, hi, dx) ==
    /\ Len1(a) = n
    /\ a.num[0] = lo * a.den
    /\ a.num[n - 1] = hi * a.den
    /\ \A i \in 0 .. n - 2 : a.num[i + 1] - a.num[i] = dx * a.den

\* C2: lat has NLAT entries from SOUTH to NORTH, lon has NLON entries from WEST
\* to EAST, and consecutive entries of each differ by exactly DX.
C2_RegularHalfDegreeGrid ==
    pc > 2 =>
        /\ RegularAxis(lat, NLAT, SOUTH, NORTH, DX)
        /\ RegularAxis(lon, NLON, WEST, EAST, DX)

\* C3: the two stacks have the same shape (NLON, NLAT, 2*DTMAX+1); the number
\* of layers is odd, layer DTMAX is the only layer at dt=0, DTMAX layers lie
\* before it and DTMAX after it, consecutive layers are DTstack hours apart,
\* and the layers span dt = -DTMAX .. +DTMAX hours.
C3_CentredStack ==
    pc > 6 =>
        /\ WV_stack.shape = <<NLON, NLAT, 2 * DTMAX + 1>>
        /\ tobs_stack.shape = WV_stack.shape
        /\ DOMAIN WV_stack.data = DOMAIN tobs_stack.data
        /\ \A c \in DOMAIN WV_stack.data :
              /\ DOMAIN WV_stack.data[c] = Layers(WV_stack)
              /\ DOMAIN tobs_stack.data[c] = Layers(WV_stack)
        /\ WV_stack.shape[3] % 2 = 1
        /\ {k \in Layers(WV_stack) : LayerDt(k) = 0} = {DTMAX}
        /\ Cardinality({k \in Layers(WV_stack) : LayerDt(k) < 0}) = DTMAX
        /\ Cardinality({k \in Layers(WV_stack) : LayerDt(k) > 0}) = DTMAX
        /\ \A k \in Layers(WV_stack) \ {0} : LayerDt(k) - LayerDt(k - 1) = DTstack
        /\ {LayerDt(k) : k \in Layers(WV_stack)} = (-DTMAX) .. DTMAX

C3_Witness ==
    /\ pc = 8
    /\ hour > FirstHour
    /\ nfill > 0
    /\ WV_stack.shape[3] = 13

\* C4: a recentering step moves, at every cell, layer k to layer k-1 for
\* k in 1 .. 2*DTMAX in both stacks, and leaves the future-most layer of both
\* stacks empty (nothing of the previously oldest layer stays there).
C4_RecenterDropsOldest ==
    [][hour' # hour =>
          \A c \in DOMAIN WV_stack.data :
              /\ \A k \in 1 .. 2 * DTMAX :
                    /\ WV_stack'.data[c][k - 1] = WV_stack.data[c][k]
                    /\ tobs_stack'.data[c][k - 1] = tobs_stack.data[c][k]
              /\ WV_stack'.data[c][2 * DTMAX] = 0
              /\ tobs_stack'.data[c][2 * DTMAX] = 0]_vars

\* C5 as stated: if the gaps between consecutive observations at the cell are
\* at most DTMAX, the interrogation of the stack centred on any product hour
\* finds a before (dt <= 0) and an after (dt >= 0).
C5_AnyProductHour ==
    (pc = "done" /\ GapsWithinDTMAX(obs)) =>
        (found.before.ok /\ found.after.ok)

\* C5 amended: the same for every product hour that is not earlier than the
\* cell's first observation and not later than its last.
C5_WithinRecord ==
    (/\ pc = "done"
     /\ GapsWithinDTMAX(obs)
     /\ \E a \in obs : a <= prodHour
     /\ \E b \in obs : prodHour <= b) =>
        /\ found.before.ok /\ found.before.dt \in 0 .. DTMAX
        /\ found.after.ok /\ found.after.dt \in 0 .. DTMAX
        /\ found.before.tobs = prodHour - found.before.dt
        /\ found.after.tobs = prodHour + found.after.dt
        /\ found.before.tobs \in obs /\ found.after.tobs \in obs

C5_Witness ==
    /\ pc = "done"
    /\ GapsWithinDTMAX(obs)
    /\ Cardinality(obs) = 2
    /\ prodHour \notin obs
    /\ found.before.ok /\ found.after.ok
    /\ found.before.dt + found.after.dt = DTMAX

\* q lies between x and y (q a quotient, x and y integers).
Between(q, x, y) ==
    LET lo == IF x <= y THEN x ELSE y
        hi == IF x <= y THEN y ELSE x
    IN lo * q.den <= q.num /\ q.num <= hi * q.den

\* C6: WV500 lies between WV_before and WV_after, is WV_before when
\* dt_before = 0 and is WV_after when dt_after = 0.
C6_WeightedAverage ==
    pc = "done" =>
        /\ Between(WV500, fin.WV_before, fin.WV_after)
        /\ (fin.dt_before = 0 => WV500.num = fin.WV_before * WV500.den)
        /\ (fin.dt_after = 0 => WV500.num = fin.WV_after * WV500.den)

\* C7: AT500 * (dt_before + dt_after) = WV_after - WV_before, and
\* WV500 = WV_before + AT500 * dt_before = WV_after - AT500 * dt_after.
C7_SlopeAndValue ==
    pc = "done" =>
        /\ AT500.num * (fin.dt_before + fin.dt_after)
              = (fin.WV_after - fin.WV_before) * AT500.den
        /\ WV500.num * AT500.den
              = fin.WV_before * WV500.den * AT500.den
                  + AT500.num * fin.dt_before * WV500.den
        /\ WV500.num * AT500.den
              = fin.WV_after * WV500.den * AT500.den
                  - AT500.num * fin.dt_after * WV500.den

AllZero2(a) == \A c \in DOMAIN a.data : a.data[c] = 0
AllZero3(a) == \A c \in DOMAIN a.data : \A k \in DOMAIN a.data[c] : a.data[c][k] = 0

C8_Allocated ==
    /\ (pc > 2 =>
          \A a \in {WV, AT} :
              a.shape = <<Len1(lon), Len1(lat)>> /\ a.shape = <<NLON, NLAT>> /\ AllZero2(a))
    /\ (pc > 4 =>
          \A a \in {WV_before, WV_after, dt_before, dt_after} :
              a.shape = <<Len1(lon), Len1(lat)>> /\ a.shape = <<NLON, NLAT>> /\ AllZero2(a))
    /\ (pc > 6 =>
          \A a \in {WV_stack, tobs_stack} :
              /\ <<a.shape[1], a.shape[2]>> = <<Len1(lon), Len1(lat)>>
              /\ <<a.shape[1], a.shape[2]>> = <<NLON, NLAT>>
              /\ (nfill = 0 => AllZero3(a)))

C8_Frame ==
    pc' # pc =>
        /\ (pc > 2 => UNCHANGED gridVars)
        /\ (pc > 4 => UNCHANGED needVars)
        /\ (pc > 6 => UNCHANGED stackVars)

\* C8: after the code cells have run, the six 2-D containers have shape
\* (len(lon), len(lat)) = (NLON, NLAT), the stacks have these first two
\* dimensions, every element of every container is 0 (for the stacks: until a
\* pixel is placed), and a cell's run leaves what earlier cells allocated unchanged.
C8_ContainersZeroAndKept == []C8_Allocated /\ [][C8_Frame]_vars

C8_Witness ==
    /\ pc = 8
    /\ nfill = 0
    /\ hour = FirstHour
    /\ AllZero3(WV_stack) /\ AllZero3(tobs_stack) /\ AllZero2(dt_after)

\* C9: at every cell and layer, WV_stack is zero exactly when tobs_stack is.
C9_StacksPaired ==
    pc > 6 =>
        \A c \in DOMAIN WV_stack.data : \A k \in Layers(WV_stack) :
            (WV_stack.data[c][k] = 0) <=> (tobs_stack.data[c][k] = 0)

====
